---- MODULE Spec2Model ----
(***************************************************************************)
(* PICA-Convert: the PICA200 texture codec (src/pica_texture) and the      *)
(* one-time initialisation guard of the native ETC1 compressor.            *)
(*                                                                         *)
(* A raster is the byte sequence of an RgbaImage (row-major, top row       *)
(* first, R,G,B,A per pixel); sequences are 1-based, so byte i of the      *)
(* source is element i+1 here.                                             *)
(***************************************************************************)
EXTENDS Integers, Sequences, FiniteSets, TLC

VARIABLES
    format,     \* TextureFormat requested
    width,      \* image width  (u32)
    height,     \* image height (u32)
    img,        \* input raster, RgbaImage::as_raw
    texture,    \* PicaTexture produced by encode_texture, or NoTexture
    buffer,     \* byte slice handed to decode_texture
    decoded,    \* outcome of decode_texture
    pc,         \* position of the codec driver
    once,       \* state of the static INIT : Once
    tpc,        \* per thread: position inside compress_block / decompress_block
    top,        \* per thread: which entry point it is in
    tcalls,     \* per thread: calls started
    waited,     \* per thread: has blocked on a running initialisation
    init_count, \* executions of etc1_pack_init started
    init_done,  \* executions of etc1_pack_init completed
    returned,   \* compress_block / decompress_block calls that have returned
    cli,        \* one run of the command line: arguments, position, one job per file, exit
    compress_calls, \* the block_rgba arrays handed to compress_block, in call order
    second      \* the decoded image encoded again, and that texture decoded again

codec_vars == <<format, width, height, img, texture, buffer, decoded, pc, cli, compress_calls, second>>
etc1_vars  == <<once, tpc, top, tcalls, waited, init_count, init_done, returned>>
vars       == <<codec_vars, etc1_vars>>

----------------------------------------------------------------------------
(* Bounds of the model *)

MaxTiles   == 2     \* dimensions range up to 8 * MaxTiles
MaxSeed    == 0     \* test images are indexed 0 .. MaxSeed
MaxDelta   == 2     \* decode buffers are resized by -MaxDelta .. MaxDelta bytes
NumThreads == 3     \* threads entering the ETC1 entry points
MaxCalls   == 2     \* calls per thread
MaxSmall   == 5     \* the command line is given images of 1..MaxSmall pixels a side,
MaxNear    == 1     \* and with one side of MaxDimension -/+ MaxNear pixels
MaxFiles   == 2     \* files in a directory given to the command line

----------------------------------------------------------------------------
(* Machine arithmetic *)

RECURSIVE BitOr(_, _)
BitOr(a, b) ==
    IF a = 0 THEN b
    ELSE IF b = 0 THEN a
    ELSE 2 * BitOr(a \div 2, b \div 2) + (IF a % 2 = 1 \/ b % 2 = 1 THEN 1 ELSE 0)

RECURSIVE BitAnd(_, _)
BitAnd(a, b) ==
    IF a = 0 \/ b = 0 THEN 0
    ELSE 2 * BitAnd(a \div 2, b \div 2) + (IF a % 2 = 1 /\ b % 2 = 1 THEN 1 ELSE 0)

Shr(v, k) == v \div (2 ^ k)

\* left shift inside an integer type of the given bit width
Shl(v, k, bits) == (v * (2 ^ k)) % (2 ^ bits)

\* left shift in a 32- or 64-bit type of a value too small to overflow it
ShlWide(v, k) == v * (2 ^ k)

\* `as u8`
AsU8(v) == v % 256

----------------------------------------------------------------------------
(* types.rs *)

UncompressedFormats ==
    {"RGBA8888", "RGB888", "RGBA5551", "RGB565", "RGBA4444",
     "LA88", "HL8", "L8", "A8", "LA44", "L4", "A4"}

TextureFormat == UncompressedFormats \cup {"ETC1", "ETC1A4"}

NoTexture == [format |-> "none", width |-> 0, height |-> 0, data |-> <<>>]

PicaTexture(f, w, h, d) == [format |-> f, width |-> w, height |-> h, data |-> d]

----------------------------------------------------------------------------
(* util.rs *)

\* the sub-blocks of a tile taken column by column
XT_column_major == <<0, 0, 4, 4>>

XT == <<0, 4, 0, 4>>
YT == <<0, 0, 4, 4>>

\* the table with one entry mistyped (26 twice, 27 missing)
SWIZZLE_LUT_typo ==
    << 0,  1,  8,  9,  2,  3, 10, 11,
      16, 17, 24, 25, 18, 19, 26, 26,
       4,  5, 12, 13,  6,  7, 14, 15,
      20, 21, 28, 29, 22, 23, 30, 31,
      32, 33, 40, 41, 34, 35, 42, 43,
      48, 49, 56, 57, 50, 51, 58, 59,
      36, 37, 44, 45, 38, 39, 46, 47,
      52, 53, 60, 61, 54, 55, 62, 63 >>

SWIZZLE_LUT ==
    << 0,  1,  8,  9,  2,  3, 10, 11,
      16, 17, 24, 25, 18, 19, 26, 27,
       4,  5, 12, 13,  6,  7, 14, 15,
      20, 21, 28, 29, 22, 23, 30, 31,
      32, 33, 40, 41, 34, 35, 42, 43,
      48, 49, 56, 57, 50, 51, 58, 59,
      36, 37, 44, 45, 38, 39, 46, 47,
      52, 53, 60, 61, 54, 55, 62, 63 >>

\* the value goes through u64 and back without swap_bytes
swap64_unswapped(bytes) == [j \in 1..8 |-> bytes[j]]

\* swap64: u64::from_le_bytes(bytes).swap_bytes().to_le_bytes()
swap64(bytes) == [j \in 1..8 |-> bytes[9 - j]]

\* the rows are left where the decoder put them
flip_vertical_omitted(data, w, h) == [panic |-> Len(data) # w * 4 * h, data |-> data]

\* flip_vertical: rows y and height-1-y are exchanged for y in 0 .. height/2 - 1
flip_vertical(data, w, h) ==
    LET row_bytes == w * 4
        img_size  == row_bytes * h
    IN  IF Len(data) # img_size
        THEN [panic |-> TRUE, data |-> data]
        ELSE [panic |-> FALSE,
              data  |-> [k \in 1..Len(data) |->
                           LET y == (k - 1) \div row_bytes
                               c == (k - 1) % row_bytes
                           IN  IF y < h \div 2 \/ (h - 1 - y) < h \div 2
                               THEN data[(h - 1 - y) * row_bytes + c + 1]
                               ELSE data[k]]]

----------------------------------------------------------------------------
(* The traversal shared by every uncompressed encoder and decoder:         *)
(*   for ty in (0..height).step_by(8)                                      *)
(*     for tx in (0..width).step_by(8)                                     *)
(*       for px in SWIZZLE_LUT                                             *)
(* Slot n (from 0) is iteration n of the innermost loop body.              *)

\* only the whole tiles are walked
TilesAcross_whole(n) == n \div 8

\* number of values of (0..n).step_by(8)
TilesAcross(n) == (n + 7) \div 8

NumSlots(w, h) == TilesAcross(w) * TilesAcross(h) * 64

SlotPx(n) == SWIZZLE_LUT[(n % 64) + 1]
SlotTx(n, w) == ((n \div 64) % TilesAcross(w)) * 8
SlotTy(n, w) == ((n \div 64) \div TilesAcross(w)) * 8

\* encode.rs: let x = px & 7; let y = (px >> 3) & 7;
EncX(px) == BitAnd(px, 7)
\* y taken from the wrong bits of px
EncY_shift_2(px) == BitAnd(Shr(px, 2), 7)

EncY(px) == BitAnd(Shr(px, 3), 7)

\* decode.rs: let x = px & 7; let y = (px - x) >> 3;
DecX(px) == BitAnd(px, 7)
DecY(px) == Shr(px - DecX(px), 3)

\* the (img_x, img_y) the encoder computes for every slot, in loop order
EncodeSlots(w, h) ==
    [i \in 1..NumSlots(w, h) |->
        [x |-> SlotTx(i - 1, w) + EncX(SlotPx(i - 1)),
         y |-> SlotTy(i - 1, w) + EncY(SlotPx(i - 1))]]

\* the last column and the last row are taken for outside the image
Skipped_last_too(s, w, h) == s.x + 1 >= w \/ s.y + 1 >= h

\* if img_x >= width || img_y >= height { continue; }
Skipped(s, w, h) == s.x >= w \/ s.y >= h

\* the slots that reach the body of the loop, in loop order
Emitted(w, h) == SelectSeq(EncodeSlots(w, h), LAMBDA s : ~Skipped(s, w, h))

\* img.get_pixel(x, y): <<R, G, B, A>>
get_pixel(raw, w, x, y) ==
    LET i == (y * w + x) * 4
    IN  <<raw[i + 1], raw[i + 2], raw[i + 3], raw[i + 4]>>

----------------------------------------------------------------------------
(* encode.rs: the bytes each encoder emits for one pixel p = <<R,G,B,A>>   *)

pack_rgba8888(p) == <<p[4], p[3], p[2], p[1]>>

pack_rgb888(p) == <<p[3], p[2], p[1]>>

LeBytes16(value) == <<AsU8(BitAnd(value, 255)), AsU8(Shr(value, 8))>>

\* the 1-5-5-5 layout: alpha in the top bit, red from bit 10
pack_rgba5551_alpha_top(p) ==
    LET r == Shr(p[1], 3)
        g == Shr(p[2], 3)
        b == Shr(p[3], 3)
        a == IF p[4] > 127 THEN 1 ELSE 0
        value == BitOr(BitOr(BitOr(Shl(a, 15, 16), Shl(r, 10, 16)), Shl(g, 5, 16)), b)
    IN  LeBytes16(value)

pack_rgba5551(p) ==
    LET r == Shr(p[1], 3)
        g == Shr(p[2], 3)
        b == Shr(p[3], 3)
        a == IF p[4] > 127 THEN 1 ELSE 0
        value == BitOr(BitOr(BitOr(Shl(r, 11, 16), Shl(g, 6, 16)), Shl(b, 1, 16)), a)
    IN  LeBytes16(value)

\* green cut to 5 bits like red and blue
pack_rgb565_green5(p) ==
    LET r == Shr(p[1], 3)
        g == Shr(p[2], 3)
        b == Shr(p[3], 3)
        value == BitOr(BitOr(Shl(r, 11, 16), Shl(g, 5, 16)), b)
    IN  LeBytes16(value)

pack_rgb565(p) ==
    LET r == Shr(p[1], 3)
        g == Shr(p[2], 2)
        b == Shr(p[3], 3)
        value == BitOr(BitOr(Shl(r, 11, 16), Shl(g, 5, 16)), b)
    IN  LeBytes16(value)

pack_rgba4444(p) ==
    LET r == Shr(p[1], 4)
        g == Shr(p[2], 4)
        b == Shr(p[3], 4)
        a == Shr(p[4], 4)
        value == BitOr(BitOr(BitOr(Shl(r, 12, 16), Shl(g, 8, 16)), Shl(b, 4, 16)), a)
    IN  LeBytes16(value)

\* let l = ((r + g + b) / 3) as u8;
Luminance(p) == AsU8((p[1] + p[2] + p[3]) \div 3)

pack_la88(p) == <<p[4], Luminance(p)>>

pack_hl8(p) == <<p[2], p[1]>>

pack_l8(p) == <<Luminance(p)>>

pack_a8(p) == <<p[4]>>

pack_la44(p) ==
    LET l == AsU8(Shr((p[1] + p[2] + p[3]) \div 3, 4))
        a == Shr(p[4], 4)
    IN  <<BitOr(Shl(l, 4, 8), a)>>

\* the 4-bit values of the nibble formats
nibble_l4(p) == AsU8(Shr((p[1] + p[2] + p[3]) \div 3, 4))
nibble_a4(p) == Shr(p[4], 4)

PackPixel(fmt, p) ==
    CASE fmt = "RGBA8888" -> pack_rgba8888(p)
      [] fmt = "RGB888"   -> pack_rgb888(p)
      [] fmt = "RGBA5551" -> pack_rgba5551(p)
      [] fmt = "RGB565"   -> pack_rgb565(p)
      [] fmt = "RGBA4444" -> pack_rgba4444(p)
      [] fmt = "LA88"     -> pack_la88(p)
      [] fmt = "HL8"      -> pack_hl8(p)
      [] fmt = "L8"       -> pack_l8(p)
      [] fmt = "A8"       -> pack_a8(p)
      [] fmt = "LA44"     -> pack_la44(p)

\* bytes appended per emitted pixel (the length of the array given to output.extend)
EmitBytes(fmt) ==
    CASE fmt = "RGBA8888" -> 4
      [] fmt = "RGB888"   -> 3
      [] fmt \in {"RGBA5551", "RGB565", "RGBA4444", "LA88", "HL8"} -> 2
      [] fmt \in {"L8", "A8", "LA44"} -> 1

\* an encoder that starts from an empty Vec and extends it once per emitted pixel
EncodeExtend(raw, w, h, fmt) ==
    LET em  == Emitted(w, h)
        bpp == EmitBytes(fmt)
        px  == [i \in 1..Len(em) |-> PackPixel(fmt, get_pixel(raw, w, em[i].x, em[i].y))]
    IN  [k \in 1..(Len(em) * bpp) |-> px[((k - 1) \div bpp) + 1][((k - 1) % bpp) + 1]]

encode_rgba8888(raw, w, h) == EncodeExtend(raw, w, h, "RGBA8888")
encode_rgb888(raw, w, h)   == EncodeExtend(raw, w, h, "RGB888")
encode_rgba5551(raw, w, h) == EncodeExtend(raw, w, h, "RGBA5551")
encode_rgb565(raw, w, h)   == EncodeExtend(raw, w, h, "RGB565")
encode_rgba4444(raw, w, h) == EncodeExtend(raw, w, h, "RGBA4444")
encode_la88(raw, w, h)     == EncodeExtend(raw, w, h, "LA88")
encode_hl8(raw, w, h)      == EncodeExtend(raw, w, h, "HL8")
encode_l8(raw, w, h)       == EncodeExtend(raw, w, h, "L8")
encode_a8(raw, w, h)       == EncodeExtend(raw, w, h, "A8")
encode_la44(raw, w, h)     == EncodeExtend(raw, w, h, "LA44")

\* the byte is assigned, not read, masked and merged
NibbleWrite_overwrite(output, dst_index, v) ==
    LET byte_index == Shr(dst_index, 1)
        shift      == ShlWide(BitAnd(dst_index, 1), 2)
    IN  [output EXCEPT ![byte_index + 1] = Shl(BitAnd(v, 15), shift, 8)]

\* output[byte_index] &= !(0xF << shift); output[byte_index] |= (v & 0xF) << shift;
NibbleWrite(output, dst_index, v) ==
    LET byte_index == Shr(dst_index, 1)
        shift      == ShlWide(BitAnd(dst_index, 1), 2)
        mask       == 255 - Shl(15, shift, 8)
        cleared    == BitAnd(output[byte_index + 1], mask)
    IN  [output EXCEPT ![byte_index + 1] = BitOr(cleared, Shl(BitAnd(v, 15), shift, 8))]

\* the nibble writes for emitted pixels lo..hi (1-based), applied in loop order;
\* the range is split in halves only to bound the evaluation depth
RECURSIVE NibbleLoop(_, _, _, _)
NibbleLoop(nibs, lo, hi, output) ==
    IF lo > hi \/ Len(output) = 0 THEN output
    ELSE IF lo = hi THEN NibbleWrite(output, lo - 1, nibs[lo])
    ELSE LET mid == (lo + hi) \div 2
         IN  NibbleLoop(nibs, mid + 1, hi, NibbleLoop(nibs, lo, mid, output))

\* vec![0; width * height], then one nibble write per emitted pixel
EncodeNibbles(raw, w, h, fmt) ==
    LET em   == Emitted(w, h)
        nibs == [i \in 1..Len(em) |->
                    LET p == get_pixel(raw, w, em[i].x, em[i].y)
                    IN  IF fmt = "L4" THEN nibble_l4(p) ELSE nibble_a4(p)]
    IN  NibbleLoop(nibs, 1, Len(em), [k \in 1..(w * h) |-> 0])

encode_l4(raw, w, h) == EncodeNibbles(raw, w, h, "L4")
encode_a4(raw, w, h) == EncodeNibbles(raw, w, h, "A4")

----------------------------------------------------------------------------
(* encode.rs: encode_etc1 and the native compressor behind compress_block  *)

\* etc1_compress_block: the native rg_etc1 compressor, a deterministic function
\* from a 64-byte RGBA block to 8 bytes; only that much of it is modelled
etc1_compress_block(block_rgba) ==
    [j \in 1..8 |->
        (block_rgba[j] + 3 * block_rgba[j + 8] + 5 * block_rgba[j + 16]
           + 7 * block_rgba[j + 24] + 11 * block_rgba[j + 32] + 13 * block_rgba[j + 40]
           + 17 * block_rgba[j + 48] + 19 * block_rgba[j + 56] + j) % 256]

\* the sub-blocks in loop order: for ty, for tx, for t in 0..4
NumSubBlocks(w, h) == TilesAcross(w) * TilesAcross(h) * 4

\* pixel i (0..15) of sub-block number k (from 0): tile-local px, py and (r,g,b,a)
SubBlockPixel(raw, w, h, k, i) ==
    LET t     == k % 4
        tx    == ((k \div 4) % TilesAcross(w)) * 8
        ty    == ((k \div 4) \div TilesAcross(w)) * 8
        px    == XT[t + 1] + (i % 4)
        py    == YT[t + 1] + (i \div 4)
        dst_x == tx + px
        dst_y == ty + py
    IN  [px |-> px, py |-> py,
         rgba |-> IF dst_x < w /\ dst_y < h
                  THEN get_pixel(raw, w, dst_x, dst_y)
                  ELSE <<0, 0, 0, 255>>]

\* block_rgba of sub-block k
block_rgba(raw, w, h, k) ==
    [j \in 1..64 |-> SubBlockPixel(raw, w, h, k, (j - 1) \div 4).rgba[((j - 1) % 4) + 1]]

\* the nibbles laid out row by row instead of column by column
alpha_shift_row_major(px, py) == ShlWide(BitAnd(py, 3) * 4 + BitAnd(px, 3), 2)

\* let alpha_shift = ((px & 3) * 4 + (py & 3)) << 2;
alpha_shift(px, py) == ShlWide(BitAnd(px, 3) * 4 + BitAnd(py, 3), 2)

\* alpha_block (u64) of sub-block k as its 16 nibbles, least significant first:
\* nibble m is the OR of ((a >> 4) & 0xF) over the pixels with alpha_shift = 4m
alpha_block(raw, w, h, k) ==
    [m \in 0..15 |->
        LET hits == {i \in 0..15 :
                       LET sp == SubBlockPixel(raw, w, h, k, i)
                       IN  alpha_shift(sp.px, sp.py) = 4 * m}
            val(i) == BitAnd(Shr(SubBlockPixel(raw, w, h, k, i).rgba[4], 4), 15)
        IN  IF hits = {} THEN 0
            ELSE LET RECURSIVE OrAll(_)
                     OrAll(S) == IF S = {} THEN 0
                                 ELSE LET i == CHOOSE i \in S : TRUE
                                      IN  BitOr(val(i), OrAll(S \ {i}))
                 IN  OrAll(hits)]

\* alpha_block.to_le_bytes()
alpha_le_bytes(nibs) == [j \in 1..8 |-> nibs[2 * (j - 1)] + 16 * nibs[2 * (j - 1) + 1]]

\* the bytes one sub-block appends to the output
SubBlockBytes(raw, w, h, k, has_alpha) ==
    LET compressed_color == etc1_compress_block(block_rgba(raw, w, h, k))
        c_block          == swap64(compressed_color)
    IN  IF has_alpha
        THEN alpha_le_bytes(alpha_block(raw, w, h, k)) \o c_block
        ELSE c_block

\* output: what sub-blocks lo .. hi-1 append, in loop order
encode_etc1(raw, w, h, has_alpha) ==
    LET RECURSIVE output(_, _)
        output(lo, hi) ==
            IF hi <= lo THEN <<>>
            ELSE IF hi = lo + 1 THEN SubBlockBytes(raw, w, h, lo, has_alpha)
            ELSE LET mid == (lo + hi) \div 2
                 IN  output(lo, mid) \o output(mid, hi)
    IN  output(0, NumSubBlocks(w, h))

encode_texture(raw, w, h, fmt) ==
    LET output_texture ==
          CASE fmt = "RGBA8888" -> encode_rgba8888(raw, w, h)
            [] fmt = "RGB888"   -> encode_rgb888(raw, w, h)
            [] fmt = "RGBA5551" -> encode_rgba5551(raw, w, h)
            [] fmt = "RGB565"   -> encode_rgb565(raw, w, h)
            [] fmt = "RGBA4444" -> encode_rgba4444(raw, w, h)
            [] fmt = "LA88"     -> encode_la88(raw, w, h)
            [] fmt = "HL8"      -> encode_hl8(raw, w, h)
            [] fmt = "L8"       -> encode_l8(raw, w, h)
            [] fmt = "A8"       -> encode_a8(raw, w, h)
            [] fmt = "LA44"     -> encode_la44(raw, w, h)
            [] fmt = "L4"       -> encode_l4(raw, w, h)
            [] fmt = "A4"       -> encode_a4(raw, w, h)
            [] fmt = "ETC1"     -> encode_etc1(raw, w, h, FALSE)
            [] fmt = "ETC1A4"   -> encode_etc1(raw, w, h, TRUE)
    IN  PicaTexture(fmt, w, h, output_texture)

----------------------------------------------------------------------------
(* decode.rs *)

DecodableFormats == {"RGBA8888", "RGB888", "RGBA5551", "RGB565", "RGBA4444"}

\* let bytes_per_pixel = 32 / 8 | 24 / 8 | 16 / 8
bytes_per_pixel(fmt) ==
    CASE fmt = "RGBA8888" -> 32 \div 8
      [] fmt = "RGB888"   -> 24 \div 8
      [] fmt \in {"RGBA5551", "RGB565", "RGBA4444"} -> 16 \div 8

\* the offsets from src_idx that a slot reads before its first write to output,
\* in the order the decoder reads them
FirstReads(fmt) ==
    CASE fmt = "RGBA8888" -> <<3>>
      [] fmt = "RGB888"   -> <<2>>
      [] fmt \in {"RGBA5551", "RGB565", "RGBA4444"} -> <<0, 1>>

\* texture_data[src_idx + k] for an index inside the slice
Byte(texture_data, src_idx, k) == texture_data[src_idx + k + 1]

Value16(texture_data, src_idx) ==
    BitOr(Byte(texture_data, src_idx, 0), Shl(Byte(texture_data, src_idx, 1), 8, 16))

\* RGBA8888 decoded without the channel reversal
unpack_rgba8888_unreversed(texture_data, src_idx) ==
    <<Byte(texture_data, src_idx, 0), Byte(texture_data, src_idx, 1),
      Byte(texture_data, src_idx, 2), Byte(texture_data, src_idx, 3)>>

\* the four bytes each decoder stores at out_idx .. out_idx + 3
unpack_rgba8888(texture_data, src_idx) ==
    <<Byte(texture_data, src_idx, 3), Byte(texture_data, src_idx, 2),
      Byte(texture_data, src_idx, 1), Byte(texture_data, src_idx, 0)>>

\* RGB888 decoded without the channel reversal
unpack_rgb888_unreversed(texture_data, src_idx) ==
    <<Byte(texture_data, src_idx, 0), Byte(texture_data, src_idx, 1),
      Byte(texture_data, src_idx, 2), 255>>

unpack_rgb888(texture_data, src_idx) ==
    <<Byte(texture_data, src_idx, 2), Byte(texture_data, src_idx, 1),
      Byte(texture_data, src_idx, 0), 255>>

\* RGBA5551 decoded with each field stored under its own name: the field at
\* bit 1 (blue of the encoder) lands in the red byte
unpack_rgba5551_by_name(texture_data, src_idx) ==
    LET value == Value16(texture_data, src_idx)
        r == AsU8(Shl(BitAnd(Shr(value, 1), 31), 3, 16))
        g == AsU8(Shl(BitAnd(Shr(value, 6), 31), 3, 16))
        b == AsU8(Shl(BitAnd(Shr(value, 11), 31), 3, 16))
        a == AsU8(BitAnd(value, 1))
    IN  <<BitOr(r, Shr(r, 5)), BitOr(g, Shr(g, 5)), BitOr(b, Shr(b, 5)), a * 255>>

unpack_rgba5551(texture_data, src_idx) ==
    LET value == Value16(texture_data, src_idx)
        r == AsU8(Shl(BitAnd(Shr(value, 1), 31), 3, 16))
        g == AsU8(Shl(BitAnd(Shr(value, 6), 31), 3, 16))
        b == AsU8(Shl(BitAnd(Shr(value, 11), 31), 3, 16))
        a == AsU8(BitAnd(value, 1))
    IN  <<BitOr(b, Shr(b, 5)), BitOr(g, Shr(g, 5)), BitOr(r, Shr(r, 5)), a * 255>>

unpack_rgb565(texture_data, src_idx) ==
    LET value == Value16(texture_data, src_idx)
        r == AsU8(Shl(BitAnd(value, 31), 3, 16))
        g == AsU8(Shl(BitAnd(Shr(value, 5), 63), 2, 16))
        b == AsU8(Shl(BitAnd(Shr(value, 11), 31), 3, 16))
    IN  <<BitOr(b, Shr(b, 5)), BitOr(g, Shr(g, 6)), BitOr(r, Shr(r, 5)), 255>>

unpack_rgba4444(texture_data, src_idx) ==
    LET value == Value16(texture_data, src_idx)
        r == AsU8(BitAnd(Shr(value, 4), 15))
        g == AsU8(BitAnd(Shr(value, 8), 15))
        b == AsU8(BitAnd(Shr(value, 12), 15))
        a == AsU8(BitAnd(value, 15))
    IN  <<BitOr(b, Shl(b, 4, 8)), BitOr(g, Shl(g, 4, 8)),
          BitOr(r, Shl(r, 4, 8)), BitOr(a, Shl(a, 4, 8))>>

UnpackPixel(fmt, texture_data, src_idx) ==
    CASE fmt = "RGBA8888" -> unpack_rgba8888(texture_data, src_idx)
      [] fmt = "RGB888"   -> unpack_rgb888(texture_data, src_idx)
      [] fmt = "RGBA5551" -> unpack_rgba5551(texture_data, src_idx)
      [] fmt = "RGB565"   -> unpack_rgb565(texture_data, src_idx)
      [] fmt = "RGBA4444" -> unpack_rgba4444(texture_data, src_idx)

\* An index too large for any Vec of the model.  A u32 expression whose exact
\* value v is negative wraps to 2^32 + v when overflow checks are off; for the
\* dimensions of the model that is beyond every buffer, which is all that the
\* bounds check of the indexing needs.
WrappedPastEnd == 2147483647

\* let out_idx = ((tx + x + (height - 1 - (ty + y)) * width) * 4) as usize;
\* row is the exact value of height - 1 - (ty + y); it is negative exactly when
\* the u32 subtraction overflows
OutRow(n, w, h) == h - 1 - (SlotTy(n, w) + DecY(SlotPx(n)))

OutIdx(n, w, h) ==
    LET v == (SlotTx(n, w) + DecX(SlotPx(n)) + OutRow(n, w, h) * w) * 4
    IN  IF v >= 0 THEN v ELSE WrappedPastEnd

\* the source index never advanced
SrcIdx_stuck(fmt, n) == 0

\* src_idx += bytes_per_pixel, once per slot
SrcIdx(fmt, n) == n * bytes_per_pixel(fmt)

Max(a, b) == IF a >= b THEN a ELSE b

\* One iteration of the innermost loop.  st.status is "run" while the loop is
\* running and "panic" once an arithmetic overflow or a slice index out of range
\* has aborted it; max_read is the largest index of texture_data read so far
\* (-1: none).  overflow_checks says whether the build panics on u32 overflow.
DecodeSlot(fmt, texture_data, w, h, overflow_checks, n, st) ==
    LET src_idx == SrcIdx(fmt, n)
        reads   == FirstReads(fmt)
        bad     == {j \in 1..Len(reads) : src_idx + reads[j] >= Len(texture_data)}
        out_idx == OutIdx(n, w, h)
    IN  IF OutRow(n, w, h) < 0 /\ overflow_checks
        THEN [st EXCEPT !.status = "panic", !.reason = "overflow"]
        ELSE IF bad # {}
        THEN LET j == CHOOSE j \in bad : \A i \in bad : j <= i
             IN  [st EXCEPT !.status = "panic", !.reason = "src index",
                            !.max_read = IF j = 1 THEN @
                                         ELSE Max(@, src_idx + reads[j - 1])]
        ELSE IF out_idx >= Len(st.output)
        THEN [st EXCEPT !.status = "panic", !.reason = "dst index",
                        !.max_read = Max(@, src_idx + reads[Len(reads)])]
        ELSE LET px == UnpackPixel(fmt, texture_data, src_idx)
             IN  [st EXCEPT !.output = [@ EXCEPT ![out_idx + 1] = px[1],
                                                 ![out_idx + 2] = px[2],
                                                 ![out_idx + 3] = px[3],
                                                 ![out_idx + 4] = px[4]],
                            !.max_read = Max(@, src_idx + bytes_per_pixel(fmt) - 1)]

\* slots lo..hi in loop order; the range is split in halves only to bound the
\* evaluation depth
RECURSIVE DecodeLoop(_, _, _, _, _, _, _, _)
DecodeLoop(fmt, texture_data, w, h, overflow_checks, lo, hi, st) ==
    IF st.status # "run" \/ lo > hi THEN st
    ELSE IF lo = hi THEN DecodeSlot(fmt, texture_data, w, h, overflow_checks, lo, st)
    ELSE LET mid == (lo + hi) \div 2
         IN  DecodeLoop(fmt, texture_data, w, h, overflow_checks, mid + 1, hi,
                 DecodeLoop(fmt, texture_data, w, h, overflow_checks, lo, mid, st))

\* let mut output = vec![0; (width * height * 4) as usize]; ... the three loops
DecodeWalk(fmt, texture_data, w, h, overflow_checks) ==
    DecodeLoop(fmt, texture_data, w, h, overflow_checks, 0, NumSlots(w, h) - 1,
               [status |-> "run", reason |-> "", max_read |-> -1,
                output |-> [k \in 1..(w * h * 4) |-> 0]])

decode_rgba8888(d, w, h, oc) == DecodeWalk("RGBA8888", d, w, h, oc)
decode_rgb888(d, w, h, oc)   == DecodeWalk("RGB888", d, w, h, oc)
decode_rgba5551(d, w, h, oc) == DecodeWalk("RGBA5551", d, w, h, oc)
decode_rgb565(d, w, h, oc)   == DecodeWalk("RGB565", d, w, h, oc)
decode_rgba4444(d, w, h, oc) == DecodeWalk("RGBA4444", d, w, h, oc)

\* the match of decode_texture: the formats that have an arm
HasDecoder(fmt) == fmt \in DecodableFormats

\* ImageBuffer::from_raw(width, height, buf): None when buf is too short
from_raw(w, h, buf) == Len(buf) >= w * h * 4

\* nothing has been encoded a second time
NoSecond == [texture |-> NoTexture, decoded |-> [status |-> "none", reason |-> "", max_read |-> -1, image |-> <<>>]]

NotDecoded == [status |-> "none", reason |-> "", max_read |-> -1, image |-> <<>>]

Failure(status, reason, max_read) ==
    [status |-> status, reason |-> reason, max_read |-> max_read, image |-> <<>>]

\* decode_texture once the match has selected the decoder of fmt: the decoder,
\* flip_vertical, ImageBuffer::from_raw
DecodeWith(data, w, h, fmt, overflow_checks) ==
    LET st == CASE fmt = "RGBA8888" -> decode_rgba8888(data, w, h, overflow_checks)
                [] fmt = "RGB888"   -> decode_rgb888(data, w, h, overflow_checks)
                [] fmt = "RGBA5551" -> decode_rgba5551(data, w, h, overflow_checks)
                [] fmt = "RGB565"   -> decode_rgb565(data, w, h, overflow_checks)
                [] fmt = "RGBA4444" -> decode_rgba4444(data, w, h, overflow_checks)
    IN  IF st.status = "panic"
        THEN Failure("panic", st.reason, st.max_read)
        ELSE LET flipped == flip_vertical(st.output, w, h)
             IN  IF flipped.panic
                 THEN Failure("panic", "flip_vertical", st.max_read)
                 ELSE IF ~from_raw(w, h, flipped.data)
                 THEN Failure("err", "from_raw", st.max_read)
                 ELSE [status |-> "ok", reason |-> "", max_read |-> st.max_read,
                       image |-> flipped.data]

\* a match whose last arm decodes every other format as RGBA8888
decode_texture_default_arm(data, w, h, fmt, overflow_checks) ==
    DecodeWith(data, w, h, IF HasDecoder(fmt) THEN fmt ELSE "RGBA8888", overflow_checks)

\* status "ok": Ok(image); "err": Err(..); "panic": the call unwound
decode_texture(data, w, h, fmt, overflow_checks) ==
    IF ~HasDecoder(fmt)
    THEN Failure("panic", "unimplemented", -1)
    ELSE DecodeWith(data, w, h, fmt, overflow_checks)

----------------------------------------------------------------------------
(* Inputs *)

\* widths and heights: the multiples of 8 up to 8 * MaxTiles, and 1, 2, 4, 12
Dims == {d \in 1..(8 * MaxTiles) : d \in {1, 2, 4, 12} \/ d % 8 = 0}

\* Channel c (0..3) of pixel number p of test image `seed`: the four channels
\* of a pixel differ, a channel takes 64 values inside a tile and all 256 values
\* over the 256 pixels of a 16 by 16 image.
TestChannel(seed, p, c) ==
    CASE c = 0 -> 4 * (p % 64)             + ((seed + (p \div 64) + 0) % 4)
      [] c = 1 -> 4 * ((3 * p + 16) % 64)  + ((seed + (p \div 64) + 1) % 4)
      [] c = 2 -> 4 * ((5 * p + 40) % 64)  + ((seed + (p \div 64) + 2) % 4)
      [] c = 3 -> 4 * ((7 * p + 31) % 64)  + ((seed + (p \div 64) + 3) % 4)

TestImage(seed, w, h) ==
    [k \in 1..(w * h * 4) |-> TestChannel(seed, (k - 1) \div 4, (k - 1) % 4)]

\* an image of one colour
SolidImage(rgba, w, h) == [k \in 1..(w * h * 4) |-> rgba[((k - 1) % 4) + 1]]

\* opaque red, and a colour whose alpha is 0xF0
SolidColours == {<<255, 0, 0, 255>>, <<16, 32, 48, 240>>}

Images(w, h) ==
    {TestImage(seed, w, h) : seed \in 0..MaxSeed} \cup {SolidImage(c, w, h) : c \in SolidColours}

\* the slice given to decode_texture: the encoded data cut short or extended
\* with zero bytes by delta
Resize(data, delta) ==
    IF delta <= 0
    THEN SubSeq(data, 1, Max(0, Len(data) + delta))
    ELSE data \o [i \in 1..delta |-> 0]

\* what a buffer sized for full 8x8 tiles has more than the texture's data
FullTileDelta(tex) ==
    IF tex.format \in DecodableFormats
    THEN NumSlots(tex.width, tex.height) * bytes_per_pixel(tex.format) - Len(tex.data)
    ELSE 0

\* the buffers tried: the data as encoded, a few bytes shorter or longer, and
\* padded to full tiles
Deltas(tex) == ((-MaxDelta)..MaxDelta) \cup {FullTileDelta(tex)}

----------------------------------------------------------------------------
(* The codec driver: an image is encoded, the texture is decoded *)

\* std::sync::Once as INIT.call_once(|| init()) uses it (etc1.rs:29-33)

\* a bare flag instead of a Once: whoever finds the flag not yet set initialises
ClaimsInit_flag(state) == state # "COMPLETE"

\* call_once: this caller is the one that runs the closure
ClaimsInit(state) == state = "INCOMPLETE"

\* call_once: this caller has to block
MustWait(state) == state = "RUNNING"

\* a caller that finds the initialisation running does not wait for it
MayProceed_early(state) == state # "INCOMPLETE"

\* call_once returns to the caller
MayProceed(state) == state = "COMPLETE"

Threads == 1..NumThreads

Etc1Init ==
    /\ once = "INCOMPLETE"
    /\ tpc = [t \in Threads |-> "idle"]
    /\ top = [t \in Threads |-> "none"]
    /\ tcalls = [t \in Threads |-> 0]
    /\ waited = [t \in Threads |-> FALSE]
    /\ init_count = 0
    /\ init_done = 0
    /\ returned = 0

\* the command line is not running
CliIdle == [pc |-> "idle"]

Init ==
    /\ format \in TextureFormat
    /\ width \in Dims
    /\ height \in Dims
    /\ img \in Images(width, height)
    /\ texture = NoTexture
    /\ buffer = <<>>
    /\ decoded = NotDecoded
    /\ second = NoSecond
    /\ pc = "start"
    /\ cli = CliIdle
    /\ compress_calls = <<>>
    /\ Etc1Init

\* encode_etc1 has sub-blocks to compress: it calls compress_block, which goes
\* through the process-wide Once, once per sub-block
CallsCompressBlock(fmt, w, h) == fmt \in {"ETC1", "ETC1A4"} /\ NumSubBlocks(w, h) > 0

\* pica_texture::encode_texture(&img, format) is called.  A format other than
\* the ETC1 ones (or an image without a tile) is encoded in this step; for the
\* ETC1 formats the thread enters the loops of encode_etc1.
Encode ==
    /\ pc = "start"
    /\ IF CallsCompressBlock(format, width, height)
       THEN /\ pc' = "etc1"
            /\ UNCHANGED texture
       ELSE /\ pc' = "encoded"
            /\ texture' = encode_texture(img, width, height, format)
    /\ UNCHANGED <<format, width, height, img, buffer, decoded, cli, second,
                   compress_calls, etc1_vars>>

\* compress_block -> ensure_initialized -> INIT.call_once finds the Once
\* INCOMPLETE: this thread takes it and begins etc1_pack_init
EncodeCallOnce ==
    /\ pc = "etc1"
    /\ ClaimsInit(once)
    /\ once' = "RUNNING"
    /\ init_count' = init_count + 1
    /\ pc' = "etc1_init"
    /\ UNCHANGED <<format, width, height, img, texture, buffer, decoded, cli, second,
                   compress_calls, tpc, top, tcalls, waited, init_done, returned>>

\* etc1_pack_init returns and call_once marks the Once COMPLETE
EncodePackInit ==
    /\ pc = "etc1_init"
    /\ once' = "COMPLETE"
    /\ init_done' = init_done + 1
    /\ pc' = "etc1"
    /\ UNCHANGED <<format, width, height, img, texture, buffer, decoded, cli, second,
                   compress_calls, tpc, top, tcalls, waited, init_count, returned>>

\* call_once finds the Once COMPLETE (a thread that finds it RUNNING stays
\* blocked here); the next sub-block is compressed and appended.  After the
\* last sub-block encode_texture returns the texture.
EncodeCompressBlock ==
    /\ pc = "etc1"
    /\ MayProceed(once)
    /\ LET k == Len(compress_calls)
       IN  /\ compress_calls' = Append(compress_calls, block_rgba(img, width, height, k))
           /\ IF k + 1 = NumSubBlocks(width, height)
              THEN /\ pc' = "encoded"
                   /\ texture' = encode_texture(img, width, height, format)
              ELSE UNCHANGED <<pc, texture>>
    /\ returned' = returned + 1
    /\ UNCHANGED <<format, width, height, img, buffer, decoded, cli, second,
                   once, tpc, top, tcalls, waited, init_count, init_done>>

\* pica_texture::decode_texture(data, width, height, format) on the texture's
\* data, possibly of the wrong length, in a build with or without overflow checks
Decode(delta, overflow_checks) ==
    /\ pc = "encoded"
    /\ buffer' = Resize(texture.data, delta)
    /\ decoded' = decode_texture(buffer', texture.width, texture.height,
                                 texture.format, overflow_checks)
    /\ pc' = "decoded"
    /\ UNCHANGED <<format, width, height, img, texture, cli, compress_calls, second, etc1_vars>>

\* the round trip taken once more: encode_texture on the image decode_texture
\* returned, then decode_texture on the data of that texture
Reencode(overflow_checks) ==
    /\ pc = "decoded"
    /\ decoded.status = "ok"
    /\ LET again == encode_texture(decoded.image, texture.width, texture.height, texture.format)
       IN  second' = [texture |-> again,
                      decoded |-> decode_texture(again.data, again.width, again.height,
                                                 again.format, overflow_checks)]
    /\ pc' = "reencoded"
    /\ UNCHANGED <<format, width, height, img, texture, buffer, decoded, cli, compress_calls, etc1_vars>>

Next ==
    \/ Encode
    \/ EncodeCallOnce
    \/ EncodePackInit
    \/ EncodeCompressBlock
    \/ \E delta \in Deltas(texture), oc \in BOOLEAN : Decode(delta, oc)
    \/ \E oc \in BOOLEAN : Reencode(oc)

Spec == Init /\ [][Next]_vars

----------------------------------------------------------------------------
(* etc1.rs: threads calling compress_block / decompress_block.             *)
(* INIT.call_once(|| init()) is std::sync::Once: a caller that finds the   *)
(* Once INCOMPLETE moves it to RUNNING in one atomic step and runs the     *)
(* closure, then marks it COMPLETE; a caller that finds it RUNNING blocks  *)
(* until it is COMPLETE; a caller that finds it COMPLETE returns at once.  *)

Etc1SpecInit ==
    /\ format = "ETC1"
    /\ width = 8
    /\ height = 8
    /\ img = TestImage(0, 8, 8)
    /\ texture = NoTexture
    /\ buffer = <<>>
    /\ decoded = NotDecoded
    /\ second = NoSecond
    /\ pc = "start"
    /\ cli = CliIdle
    /\ compress_calls = <<>>
    /\ Etc1Init

\* a thread enters compress_block or decompress_block: ensure_initialized() is next
Enter(t, entry) ==
    /\ tpc[t] = "idle"
    /\ tcalls[t] < MaxCalls
    /\ tpc' = [tpc EXCEPT ![t] = "ensure"]
    /\ top' = [top EXCEPT ![t] = entry]
    /\ tcalls' = [tcalls EXCEPT ![t] = @ + 1]
    /\ UNCHANGED <<once, waited, init_count, init_done, returned, codec_vars>>

\* call_once finds the Once INCOMPLETE and takes it
CallOnceClaim(t) ==
    /\ tpc[t] = "ensure"
    /\ ClaimsInit(once)
    /\ once' = "RUNNING"
    /\ tpc' = [tpc EXCEPT ![t] = "init"]
    /\ UNCHANGED <<top, tcalls, waited, init_count, init_done, returned, codec_vars>>

\* the closure: init() calls the native etc1_pack_init
PackInitBegin(t) ==
    /\ tpc[t] = "init"
    /\ init_count' = init_count + 1
    /\ tpc' = [tpc EXCEPT ![t] = "in_init"]
    /\ UNCHANGED <<once, top, tcalls, waited, init_done, returned, codec_vars>>

\* etc1_pack_init returns; call_once marks the Once COMPLETE and returns
PackInitEnd(t) ==
    /\ tpc[t] = "in_init"
    /\ init_done' = init_done + 1
    /\ once' = "COMPLETE"
    /\ tpc' = [tpc EXCEPT ![t] = "native"]
    /\ UNCHANGED <<top, tcalls, waited, init_count, returned, codec_vars>>

\* call_once finds the Once RUNNING: the thread blocks
CallOnceWait(t) ==
    /\ tpc[t] = "ensure"
    /\ MustWait(once)
    /\ tpc' = [tpc EXCEPT ![t] = "blocked"]
    /\ waited' = [waited EXCEPT ![t] = TRUE]
    /\ UNCHANGED <<once, top, tcalls, init_count, init_done, returned, codec_vars>>

\* call_once returns: at once when the Once is COMPLETE, or after the wait
CallOnceReturn(t) ==
    /\ tpc[t] \in {"ensure", "blocked"}
    /\ MayProceed(once)
    /\ tpc' = [tpc EXCEPT ![t] = "native"]
    /\ UNCHANGED <<once, top, tcalls, waited, init_count, init_done, returned, codec_vars>>

\* the native etc1_compress_block / etc1_decompress_block call begins
NativeBegin(t) ==
    /\ tpc[t] = "native"
    /\ tpc' = [tpc EXCEPT ![t] = "in_native"]
    /\ UNCHANGED <<once, top, tcalls, waited, init_count, init_done, returned, codec_vars>>

\* the native call ends and compress_block / decompress_block returns
NativeEnd(t) ==
    /\ tpc[t] = "in_native"
    /\ tpc' = [tpc EXCEPT ![t] = "idle"]
    /\ returned' = returned + 1
    /\ UNCHANGED <<once, top, tcalls, waited, init_count, init_done, codec_vars>>

Etc1Next ==
    \E t \in Threads :
        \/ \E entry \in {"compress_block", "decompress_block"} : Enter(t, entry)
        \/ CallOnceClaim(t)
        \/ PackInitBegin(t)
        \/ PackInitEnd(t)
        \/ CallOnceWait(t)
        \/ CallOnceReturn(t)
        \/ NativeBegin(t)
        \/ NativeEnd(t)

Etc1Spec == Etc1SpecInit /\ [][Etc1Next]_vars

-----------------------------------------------------------------------------
(* main.rs: fn main, fn encode_texture(args), fn decode_texture(args).      *)
(* One run of the command line is one process: a single file, or every file *)
(* of a directory handed to files.par_iter().for_each, whose calls overlap. *)
(* A job is one call of encode_texture(args) or decode_texture(args).       *)

\* if width > 1024 || height > 1024
MaxDimension == 1024

\* if width > 1024 || height > 1024 { return Err(..) }
DimsTooLarge(w, h) == w > MaxDimension \/ h > MaxDimension

\* (n & (n - 1)) != 0 on a u32.  At n = 0 a build with overflow checks panics
\* in `n - 1`; one without wraps it to 2^32 - 1, and 0 & (2^32 - 1) is 0.
SideNotPowerOfTwo(n, overflow_checks) ==
    IF n = 0
    THEN IF overflow_checks THEN "panic" ELSE "false"
    ELSE IF BitAnd(n, n - 1) # 0 THEN "true" ELSE "false"

\* (width & (width - 1)) != 0 || (height & (height - 1)) != 0: the left operand
\* is evaluated first and the right one only when the left is false
NotPowerOfTwo(w, h, overflow_checks) ==
    LET left == SideNotPowerOfTwo(w, overflow_checks)
    IN  IF left = "false" THEN SideNotPowerOfTwo(h, overflow_checks) ELSE left

\* u32::next_power_of_two: the smallest power of two >= n (1 for n = 0)
next_power_of_two(n) ==
    CHOOSE p \in {2 ^ k : k \in 0..30} : p >= n /\ \A q \in {2 ^ k : k \in 0..30} : q >= n => p <= q

\* files the command line is pointed at: an image of w by h pixels, a .ctex
\* file holding a texture, or a file that cannot be opened or parsed
ImageFile(w, h) == [kind |-> "image", width |-> w, height |-> h]

CtexFile(tex) == [kind |-> "ctex", texture |-> tex]

Unreadable == [kind |-> "unreadable"]

\* the pixels ImageReader::decode returns for an image file
FileImage(file) == TestImage(0, file.width, file.height)

\* img.resize_exact(new_width, new_height, Lanczos3): an image of the new
\* dimensions.  The filter belongs to the image crate; its pixels are one of
\* the rasters of that size.
resize_exact(raw, new_width, new_height) ==
    {TestImage(0, new_width, new_height), SolidImage(<<16, 32, 48, 240>>, new_width, new_height)}

\* fn encode_texture(args) up to the call of pica_texture::encode_texture:
\* "err" is a returned Err, "panic" an unwinding, "go" reaches the encoder
\* with an image of width by height pixels
CliStop(result, why) ==
    [result |-> result, error |-> why, resized |-> FALSE, width |-> 0, height |-> 0]

cli_encode_texture(args, file) ==
    IF file.kind # "image" THEN CliStop("err", "Failed to open or decode image")
    ELSE
    LET w == file.width
        h == file.height
        npot == NotPowerOfTwo(w, h, args.overflow_checks)
    IN  IF npot = "panic" THEN CliStop("panic", "attempt to subtract with overflow")
        ELSE IF npot = "true" /\ ~args.resize
        THEN CliStop("err", "Image dimensions are not power of two")
        ELSE IF DimsTooLarge(w, h)
        THEN CliStop("err", "Image dimensions must not exceed 1024x1024")
        ELSE IF args.output_format = "None"
        THEN CliStop("err", "Output format is required for encoding.")
        ELSE [result |-> "go", error |-> "", resized |-> (npot = "true"),
              width  |-> IF npot = "true" THEN next_power_of_two(w) ELSE w,
              height |-> IF npot = "true" THEN next_power_of_two(h) ELSE h]

\* a call of encode_texture(args) / decode_texture(args) that has not begun
Job(file) ==
    [file |-> file, pc |-> "ready", result |-> "none", error |-> "",
     encoded |-> FALSE, written |-> FALSE,
     enc_format |-> "none", enc_width |-> 0, enc_height |-> 0,
     img |-> <<>>, calls |-> 0, texture |-> NoTexture, decoded |-> NotDecoded]

\* serialization::ctex::serialize(encoded_texture, output_path) and the return
\* of encode_texture: File::create(..).expect(..) panics when the file cannot
\* be created
Serialized(job, tex, create_ok) ==
    [job EXCEPT !.pc = "done", !.texture = tex, !.img = <<>>,
                !.written = create_ok,
                !.result = IF create_ok THEN "ok" ELSE "panic",
                !.error = IF create_ok THEN "" ELSE "Failed to create file"]

(* Inputs of the command line *)

SmallSides == (1..MaxSmall) \cup {8, 16}

LimitSides == ((MaxDimension - MaxNear)..(MaxDimension + MaxNear)) \cup {2 * MaxDimension}

\* small images, images without pixels, and images with one side at the limit
\* (the other side 3, not a power of two, or 2)
SingleImages ==
    {ImageFile(w, h) : w \in SmallSides, h \in SmallSides}
        \cup {ImageFile(0, 0), ImageFile(0, 8), ImageFile(8, 0)}

LimitImages ==
    {ImageFile(w, 3) : w \in LimitSides} \cup {ImageFile(2, h) : h \in LimitSides}

LimitFormats == {"None", "A8", "ETC1A4"}

BulkImages == {Unreadable, ImageFile(8, 8), ImageFile(4, 4)}

BulkFormats == {"None", "RGBA8888", "ETC1", "ETC1A4"}

\* .ctex files as the encode path writes them, and one whose data is missing
CtexFiles ==
    {CtexFile(encode_texture(TestImage(0, d[1], d[2]), d[1], d[2], fmt)) :
        fmt \in TextureFormat, d \in {<<8, 8>>, <<4, 4>>, <<8, 16>>}}
        \cup {CtexFile(PicaTexture("RGBA8888", 8, 8, <<>>))}

BulkCtexFiles ==
    {Unreadable,
     CtexFile(encode_texture(TestImage(0, 8, 8), 8, 8, "RGBA8888")),
     CtexFile(encode_texture(TestImage(0, 8, 8), 8, 8, "ETC1"))}

\* the directory listings of at most n files
Listings(S, n) == UNION {[1..k -> S] : k \in 0..n}

\* struct Cli after Cli::parse(), with what the file system holds at
\* input_path (`input`, `files`), whether output_path can be created, and the
\* build the binary is
CliArgs ==
    [mode : {"encode"}, input : {"file"}, files : {<<f>> : f \in SingleImages \cup {Unreadable}},
     resize : BOOLEAN, output_format : TextureFormat \cup {"None"},
     create_ok : BOOLEAN, overflow_checks : BOOLEAN]
    \cup
    [mode : {"encode"}, input : {"file"}, files : {<<f>> : f \in LimitImages},
     resize : BOOLEAN, output_format : LimitFormats,
     create_ok : {TRUE}, overflow_checks : {FALSE}]
    \cup
    [mode : {"decode"}, input : {"file"}, files : {<<f>> : f \in CtexFiles \cup {Unreadable}},
     resize : {FALSE}, output_format : {"None"},
     create_ok : BOOLEAN, overflow_checks : BOOLEAN]
    \cup
    [mode : {"encode"}, input : {"dir"}, files : Listings(BulkImages, MaxFiles),
     resize : {FALSE}, output_format : BulkFormats,
     create_ok : BOOLEAN, overflow_checks : {FALSE}]
    \cup
    [mode : {"decode"}, input : {"dir"}, files : Listings(BulkCtexFiles, MaxFiles),
     resize : {FALSE}, output_format : {"None"},
     create_ok : BOOLEAN, overflow_checks : BOOLEAN]
    \cup
    [mode : {"encode", "decode"}, input : {"missing"}, files : {<<>>},
     resize : {FALSE}, output_format : {"None", "RGBA8888"},
     create_ok : {TRUE}, overflow_checks : {FALSE}]

CliInit ==
    /\ format = "RGBA8888"
    /\ width = 8
    /\ height = 8
    /\ img = TestImage(0, 8, 8)
    /\ texture = NoTexture
    /\ buffer = <<>>
    /\ decoded = NotDecoded
    /\ second = NoSecond
    /\ pc = "cli"
    /\ \E args \in CliArgs :
          cli = [pc |-> "start", args |-> args, jobs |-> <<>>, exit |-> "none"]
    /\ compress_calls = <<>>
    /\ Etc1Init

cli_unchanged == <<format, width, height, img, texture, buffer, decoded, pc, second,
                   compress_calls, tpc, top, tcalls, waited>>

\* fn main up to the calls: fs::metadata(&args.input_path)?, and for a
\* directory fs::create_dir_all(output_dir)? and fs::read_dir
CliMain ==
    /\ cli.pc = "start"
    /\ cli' = IF cli.args.input = "missing"
                 \/ (cli.args.input = "dir" /\ ~cli.args.create_ok)
              THEN [cli EXCEPT !.pc = "exited", !.exit = "err"]
              ELSE [cli EXCEPT !.pc = "running",
                               !.jobs = [j \in 1..Len(cli.args.files) |-> Job(cli.args.files[j])]]
    /\ UNCHANGED <<cli_unchanged, once, init_count, init_done, returned>>

\* encode_texture(args) from the load of the image to the call of
\* pica_texture::encode_texture.  A format other than the ETC1 ones is encoded
\* and serialized in this step; for the ETC1 formats the thread enters the
\* loops of encode_etc1.
CliEncodeTexture(j) ==
    /\ cli.pc = "running"
    /\ cli.args.mode = "encode"
    /\ j \in 1..Len(cli.jobs)
    /\ cli.jobs[j].pc = "ready"
    /\ LET job == cli.jobs[j]
           v   == cli_encode_texture(cli.args, job.file)
           fmt == cli.args.output_format
       IN  IF v.result # "go"
           THEN cli' = [cli EXCEPT !.jobs[j] =
                           [job EXCEPT !.pc = "done", !.result = v.result, !.error = v.error]]
           ELSE \E image \in IF v.resized
                             THEN resize_exact(FileImage(job.file), v.width, v.height)
                             ELSE {FileImage(job.file)} :
                  LET called == [job EXCEPT !.encoded = TRUE, !.enc_format = fmt,
                                            !.enc_width = v.width, !.enc_height = v.height]
                  IN  cli' = [cli EXCEPT !.jobs[j] =
                                 IF CallsCompressBlock(fmt, v.width, v.height)
                                 THEN [called EXCEPT !.pc = "etc1", !.img = image]
                                 ELSE Serialized(called,
                                                 encode_texture(image, v.width, v.height, fmt),
                                                 cli.args.create_ok)]
    /\ UNCHANGED <<cli_unchanged, once, init_count, init_done, returned>>

\* compress_block -> ensure_initialized: call_once finds the Once INCOMPLETE,
\* takes it and calls etc1_pack_init
CliCallOnce(j) ==
    /\ cli.pc = "running"
    /\ j \in 1..Len(cli.jobs)
    /\ cli.jobs[j].pc = "etc1"
    /\ ClaimsInit(once)
    /\ once' = "RUNNING"
    /\ init_count' = init_count + 1
    /\ cli' = [cli EXCEPT !.jobs[j].pc = "etc1_init"]
    /\ UNCHANGED <<cli_unchanged, init_done, returned>>

\* etc1_pack_init returns and call_once marks the Once COMPLETE
CliPackInit(j) ==
    /\ cli.pc = "running"
    /\ j \in 1..Len(cli.jobs)
    /\ cli.jobs[j].pc = "etc1_init"
    /\ once' = "COMPLETE"
    /\ init_done' = init_done + 1
    /\ cli' = [cli EXCEPT !.jobs[j].pc = "etc1"]
    /\ UNCHANGED <<cli_unchanged, init_count, returned>>

\* call_once finds the Once COMPLETE (a thread that finds it RUNNING stays
\* blocked here) and the next sub-block is compressed.  After the last
\* sub-block pica_texture::encode_texture returns and the texture is serialized.
CliCompressBlock(j) ==
    /\ cli.pc = "running"
    /\ j \in 1..Len(cli.jobs)
    /\ cli.jobs[j].pc = "etc1"
    /\ MayProceed(once)
    /\ LET job == cli.jobs[j]
       IN  cli' = [cli EXCEPT !.jobs[j] =
                      IF job.calls + 1 = NumSubBlocks(job.enc_width, job.enc_height)
                      THEN Serialized([job EXCEPT !.calls = @ + 1],
                                      encode_texture(job.img, job.enc_width, job.enc_height,
                                                     job.enc_format),
                                      cli.args.create_ok)
                      ELSE [job EXCEPT !.calls = @ + 1]]
    /\ returned' = returned + 1
    /\ UNCHANGED <<cli_unchanged, once, init_count, init_done>>

\* pica_texture::decode_texture(&encoded_texture): main.rs passes the texture
\* where the function takes its data, width, height and format
decode_file(tex, overflow_checks) ==
    decode_texture(tex.data, tex.width, tex.height, tex.format, overflow_checks)

\* the rest of decode_texture(args) once pica_texture::decode_texture has ended
\* with d: `?` returns its Err, dec_texture.save(output_path)? writes the image
Saved(job, d, save_ok) ==
    IF d.status # "ok"
    THEN [job EXCEPT !.pc = "done", !.decoded = d, !.result = d.status, !.error = d.reason]
    ELSE [job EXCEPT !.pc = "done", !.decoded = d, !.written = save_ok,
                     !.result = IF save_ok THEN "ok" ELSE "err",
                     !.error = IF save_ok THEN "" ELSE "Failed to save image"]

\* decode_texture(args): serialization::ctex::deserialize(input_path)?,
\* pica_texture::decode_texture, dec_texture.save(output_path)?
CliDecodeTexture(j) ==
    /\ cli.pc = "running"
    /\ cli.args.mode = "decode"
    /\ j \in 1..Len(cli.jobs)
    /\ cli.jobs[j].pc = "ready"
    /\ cli' = [cli EXCEPT !.jobs[j] =
                  IF @.file.kind # "ctex"
                  THEN [@ EXCEPT !.pc = "done", !.result = "err",
                                 !.error = "Failed to open or parse file"]
                  ELSE Saved(@, decode_file(@.file.texture, cli.args.overflow_checks),
                             cli.args.create_ok)]
    /\ UNCHANGED <<cli_unchanged, once, init_count, init_done, returned>>

\* the end of fn main once every call has returned or unwound: a panic ends
\* the process; for a single file an Err is returned by `?`; for a directory
\* an Err is printed by the closure and "Conversion complete" follows
CliExit ==
    /\ cli.pc = "running"
    /\ \A j \in 1..Len(cli.jobs) : cli.jobs[j].pc = "done"
    /\ cli' = [cli EXCEPT !.pc = "exited",
                          !.exit = IF \E j \in 1..Len(cli.jobs) : cli.jobs[j].result = "panic"
                                   THEN "panic"
                                   ELSE IF cli.args.input = "file"
                                           /\ \E j \in 1..Len(cli.jobs) : cli.jobs[j].result = "err"
                                   THEN "err"
                                   ELSE "ok"]
    /\ UNCHANGED <<cli_unchanged, once, init_count, init_done, returned>>

CliNext ==
    \/ CliMain
    \/ \E j \in 1..MaxFiles :
          \/ CliEncodeTexture(j)
          \/ CliCallOnce(j)
          \/ CliPackInit(j)
          \/ CliCompressBlock(j)
          \/ CliDecodeTexture(j)
    \/ CliExit

CliSpec == CliInit /\ [][CliNext]_vars

----------------------------------------------------------------------------
(* Properties *)

MultipleOf8(n) == n > 0 /\ n % 8 = 0

\* decode_texture has been called on exactly the bytes encode_texture produced,
\* for dimensions that are multiples of 8
RoundTrip(fmt) ==
    /\ pc = "decoded"
    /\ texture.format = fmt
    /\ MultipleOf8(width) /\ MultipleOf8(height)
    /\ buffer = texture.data

\* channel c (1..4) of pixel p (from 0) of a raster
Chan(raw, p, c) == raw[4 * p + c]

Abs(v) == IF v >= 0 THEN v ELSE -v

\* eight times the packed size in bytes that format, width and height imply:
\* bits per pixel for the uncompressed formats, 8- or 16-byte blocks of 4 by 4
\* pixels for the ETC1 formats
ExpectedBits(fmt, w, h) ==
    CASE fmt = "RGBA8888" -> w * h * 32
      [] fmt = "RGB888"   -> w * h * 24
      [] fmt \in {"RGBA5551", "RGB565", "RGBA4444", "LA88", "HL8"} -> w * h * 16
      [] fmt \in {"L8", "A8", "LA44"} -> w * h * 8
      [] fmt \in {"L4", "A4"} -> w * h * 4
      [] fmt = "ETC1"   -> ((w + 3) \div 4) * ((h + 3) \div 4) * 64
      [] fmt = "ETC1A4" -> ((w + 3) \div 4) * ((h + 3) \div 4) * 128

\* C1: for dimensions that are positive multiples of 8, decoding the RGBA8888
\* encoding of an image returns that image, every pixel and every channel.
C1_RoundTripRGBA8888 ==
    RoundTrip("RGBA8888") => (decoded.status = "ok" /\ decoded.image = img)

C1_Witness ==
    /\ RoundTrip("RGBA8888")
    /\ width = 16 /\ height = 8
    /\ decoded.status = "ok"
    /\ Len(decoded.image) = 16 * 8 * 4

\* C2 as stated: decoding the RGB888 encoding returns the image in every
\* channel, whatever the input alpha is.
C2_Original ==
    RoundTrip("RGB888") => (decoded.status = "ok" /\ decoded.image = img)

\* C2 amended: decoding the RGB888 encoding returns the R, G and B of every
\* pixel unchanged and the alpha 255.
C2_RoundTripRGB888 ==
    RoundTrip("RGB888") =>
        /\ decoded.status = "ok"
        /\ Len(decoded.image) = Len(img)
        /\ \A p \in 0..(width * height - 1) :
              /\ \A c \in 1..3 : Chan(decoded.image, p, c) = Chan(img, p, c)
              /\ Chan(decoded.image, p, 4) = 255

C2_Witness ==
    /\ RoundTrip("RGB888")
    /\ width = 8 /\ height = 16
    /\ decoded.status = "ok"
    /\ \E p \in 0..(width * height - 1) : Chan(img, p, 4) # 255

\* C3: for each of the 12 uncompressed formats and dimensions that are
\* multiples of 8, the encoded data has width*height*bytes_per_pixel bytes
\* (half a byte per pixel for L4 and A4).
C3_EncodedLength ==
    (/\ pc \in {"encoded", "decoded"}
     /\ texture.format \in UncompressedFormats
     /\ MultipleOf8(width) /\ MultipleOf8(height))
    => 8 * Len(texture.data) = ExpectedBits(texture.format, width, height)

\* the largest error the claim allows for a stored colour channel
Tolerance(fmt, c) ==
    CASE fmt = "RGBA5551" -> 7
      [] fmt = "RGB565"   -> IF c = 2 THEN 3 ELSE 7
      [] fmt = "RGBA4444" -> 15

\* C4: after decode(encode(img)) in RGBA5551, RGB565 or RGBA4444 every stored
\* channel is within the quantization step of the original (7 for 5 bits, 3 for
\* the 6-bit green, 15 for 4 bits), and the RGBA5551 alpha is 255 for an input
\* alpha above 127 and 0 otherwise.
C4_QuantizationError ==
    \A fmt \in {"RGBA5551", "RGB565", "RGBA4444"} :
        RoundTrip(fmt) =>
            /\ decoded.status = "ok"
            /\ Len(decoded.image) = Len(img)
            /\ \A p \in 0..(width * height - 1) :
                  /\ \A c \in 1..3 :
                        Abs(Chan(decoded.image, p, c) - Chan(img, p, c)) <= Tolerance(fmt, c)
                  /\ fmt = "RGBA4444" =>
                        Abs(Chan(decoded.image, p, 4) - Chan(img, p, 4)) <= 15
                  /\ fmt = "RGBA5551" =>
                        Chan(decoded.image, p, 4) = IF Chan(img, p, 4) > 127 THEN 255 ELSE 0

\* a round trip in which some channel is off by exactly 7 and some input alpha
\* is on each side of the threshold
C4_Witness ==
    /\ RoundTrip("RGBA5551")
    /\ decoded.status = "ok"
    /\ \E p \in 0..(width * height - 1) :
          Abs(Chan(decoded.image, p, 1) - Chan(img, p, 1)) = 7
    /\ \E p, q \in 0..(width * height - 1) :
          /\ Chan(img, p, 4) = 128 /\ Chan(decoded.image, p, 4) = 255
          /\ Chan(img, q, 4) = 127 /\ Chan(decoded.image, q, 4) = 0

\* C5: for each of the 12 uncompressed formats decode_texture, given a
\* correctly sized buffer, returns an image and does not fail as unsupported.
C5_EveryFormatDecodes ==
    (/\ pc = "decoded"
     /\ texture.format \in UncompressedFormats
     /\ MultipleOf8(width) /\ MultipleOf8(height)
     /\ 8 * Len(buffer) = ExpectedBits(texture.format, width, height))
    => (decoded.status = "ok" /\ decoded.reason # "unimplemented")

\* C6: over the slots 0..63 of a tile the pairs (SWIZZLE_LUT[i] & 7,
\* (SWIZZLE_LUT[i] >> 3) & 7), as the encoder walks them over the first tile of
\* the image, lie in 0..7 x 0..7 and take every coordinate exactly once.
C6_SwizzleBijection ==
    LET tile == SubSeq(EncodeSlots(width, height), 1, 64)
    IN  /\ Len(SWIZZLE_LUT) = 64
        /\ \A i \in 1..64 : tile[i].x \in 0..7 /\ tile[i].y \in 0..7
        /\ \A x, y \in 0..7 :
              Cardinality({i \in 1..64 : tile[i].x = x /\ tile[i].y = y}) = 1

\* an 8 by 8 image has been encoded and each of its 64 pixels was visited
C6_Witness ==
    /\ pc = "encoded"
    /\ width = 8 /\ height = 8
    /\ texture.format = "A8"
    /\ {<<s.x, s.y>> : s \in {Emitted(8, 8)[i] : i \in 1..Len(Emitted(8, 8))}}
          = (0..7) \X (0..7)
    /\ Len(texture.data) = 64

\* C7: over all threads and calls etc1_pack_init is executed at most once, and
\* it has been executed once as soon as any call has returned.
C7_InitExactlyOnce ==
    /\ init_count <= 1
    /\ returned > 0 => (init_count = 1 /\ init_done = 1)

\* two threads raced for the first use, both have returned, one single init
C7_Witness ==
    /\ returned >= 2
    /\ init_count = 1
    /\ \E t1, t2 \in Threads : t1 # t2 /\ waited[t1] /\ tcalls[t2] > 0 /\ ~waited[t2]

\* C8: no native compress or decompress call begins before etc1_pack_init has
\* run to completion, also in a thread that arrived while the initialisation
\* was running.
C8_NativeAfterInit ==
    \A t \in Threads :
        tpc[t] \in {"native", "in_native"} => (init_done >= 1 /\ once = "COMPLETE")

\* a thread that had to wait for the running initialisation is in its native call
C8_Witness ==
    \E t \in Threads : tpc[t] = "in_native" /\ waited[t] /\ init_done = 1

\* C9: decode_texture on a buffer shorter than the packed size of the declared
\* format and dimensions returns no image and reads no byte outside the buffer.
C9_ShortBufferFails ==
    (/\ pc = "decoded"
     /\ 8 * Len(buffer) < ExpectedBits(texture.format, width, height))
    => (decoded.status # "ok" /\ decoded.image = <<>> /\ decoded.max_read < Len(buffer))

\* a decodable format, one byte missing: the decoder consumed the buffer up to
\* its last byte and then failed
C9_Witness ==
    /\ pc = "decoded"
    /\ texture.format = "RGBA5551"
    /\ MultipleOf8(width) /\ MultipleOf8(height)
    /\ Len(buffer) = width * height * 2 - 1
    /\ decoded.status = "panic"
    /\ decoded.reason = "src index"
    /\ decoded.max_read = Len(buffer) - 1

\* C10: decode_texture on a buffer whose length differs from the packed size of
\* the declared format and dimensions, shorter or longer, yields no image.
C10_WrongLengthFails ==
    (/\ pc = "decoded"
     /\ 8 * Len(buffer) # ExpectedBits(texture.format, width, height))
    => decoded.status # "ok"

\* C11: decode_texture for a format without a decoder, in particular ETC1 and
\* ETC1A4, fails at once: no byte of the buffer is decoded, no image is
\* returned, and the driver does not call it again.
C11_UnsupportedFailsAtOnce ==
    (pc = "decoded" /\ texture.format \notin DecodableFormats)
    => /\ decoded.status = "panic"
       /\ decoded.reason = "unimplemented"
       /\ decoded.max_read = -1
       /\ decoded.image = <<>>
       /\ \A delta \in (-MaxDelta)..MaxDelta, oc \in BOOLEAN : ~ENABLED Decode(delta, oc)

\* an ETC1A4 texture of one full tile was handed to decode_texture
C11_Witness ==
    /\ pc = "decoded"
    /\ texture.format = "ETC1A4"
    /\ width = 8 /\ height = 8
    /\ Len(buffer) = 64
    /\ decoded.status = "panic"

\* sub-block k (from 0) of the ETC1 walk: image coordinates of its origin
SubBlockOriginX(k, w) == ((k \div 4) % ((w + 7) \div 8)) * 8 + 4 * (k % 2)
SubBlockOriginY(k, w) == ((k \div 4) \div ((w + 7) \div 8)) * 8 + 4 * ((k % 4) \div 2)

\* the alpha that sub-block k holds at column c, row r: the pixel's alpha inside
\* the image, 255 outside
SubBlockAlpha(k, c, r) ==
    LET x == SubBlockOriginX(k, width) + c
        y == SubBlockOriginY(k, width) + r
    IN  IF x < width /\ y < height THEN Chan(img, y * width + x, 4) ELSE 255

\* nibble m (0..15, least significant first) of the 8 mask bytes that sub-block
\* k contributes to an ETC1A4 texture
MaskNibble(k, m) ==
    LET byte == texture.data[16 * k + (m \div 2) + 1]
    IN  IF m % 2 = 0 THEN byte % 16 ELSE byte \div 16

\* C12: in an ETC1A4 texture the alpha mask of every sub-block holds the top 4
\* alpha bits of the pixel at column c, row r in the nibble at bit (4c + r) * 4,
\* one nibble per pixel; a sub-block whose pixels all have alpha 0xF0 has the
\* mask 0xFFFFFFFFFFFFFFFF.
C12_AlphaMaskLayout ==
    (pc = "encoded" /\ format = "ETC1A4") =>
        \A k \in 0..(Len(texture.data) \div 16 - 1) :
            /\ \A c, r \in 0..3 : MaskNibble(k, 4 * c + r) = SubBlockAlpha(k, c, r) \div 16
            /\ (\A c, r \in 0..3 : SubBlockAlpha(k, c, r) = 240)
                  => \A j \in 1..8 : texture.data[16 * k + j] = 255

\* an 8x8 image of alpha 0xF0 everywhere: the first mask is eight 0xFF bytes
C12_Witness ==
    /\ pc = "encoded" /\ format = "ETC1A4" /\ width = 8 /\ height = 8
    /\ \A c, r \in 0..3 : SubBlockAlpha(0, c, r) = 240
    /\ \A j \in 1..8 : texture.data[j] = 255

\* let num_blocks = width.div_ceil(4) * height.div_ceil(4): the block count
\* encode_etc1 computes for the capacity of its output
num_blocks(w, h) == ((w + 3) \div 4) * ((h + 3) \div 4)

\* 8 bytes of colour per block, and 8 bytes of alpha before them for ETC1A4
block_size(fmt) == IF fmt = "ETC1A4" THEN 16 ELSE 8

\* C13: for every width and height, the ETC1 and ETC1A4 encodings have exactly
\* ceil(width/4) * ceil(height/4) blocks of 8 (ETC1) or 16 (ETC1A4) bytes.
C13_BlockCountLength ==
    (pc = "encoded" /\ format \in {"ETC1", "ETC1A4"})
        => Len(texture.data) = num_blocks(width, height) * block_size(format)

\* C14: the ETC1 encoding (has_alpha = false) of a width-by-height image has
\* width * height bytes, as the documented example asserts for 128x128.
C14_DocExampleLength ==
    (pc = "encoded" /\ format = "ETC1") => Len(texture.data) = width * height

\* n is a power of two no larger than the limit of the command line
PowerOfTwoUpTo1024(n) == \E k \in 0..10 : n = 2 ^ k

\* job j of an encode run keeps to the validation: what it passes to the
\* encoder has sides that are powers of two up to 1024, and when it passes
\* nothing it returns Err with nothing encoded or written
JobValidated(j) ==
    LET job == cli.jobs[j]
    IN  /\ job.encoded =>
              /\ PowerOfTwoUpTo1024(job.enc_width)
              /\ PowerOfTwoUpTo1024(job.enc_height)
              /\ (~cli.args.resize => /\ job.enc_width = job.file.width
                                      /\ job.enc_height = job.file.height)
        /\ (job.pc = "done" /\ job.encoded) =>
              /\ job.texture.width = job.enc_width
              /\ job.texture.height = job.enc_height
        /\ (job.pc = "done" /\ ~job.encoded) =>
              /\ job.result = "err"
              /\ ~job.written
              /\ job.texture = NoTexture

\* C15: every image the command line passes to the encoder has a width and a
\* height that are powers of two and at most 1024, with or without --resize;
\* every other run returns an error before encoding and writes no file.
C15_CliValidatesDimensions ==
    (cli.pc \in {"running", "exited"} /\ cli.args.mode = "encode") =>
        \A j \in 1..Len(cli.jobs) : JobValidated(j)

\* the same for the image files that have a pixel: an image without pixels
\* (a side of 0) is the one input that gets past the validation
CliValidatesNonEmptyImages ==
    (cli.pc \in {"running", "exited"} /\ cli.args.mode = "encode") =>
        \A j \in 1..Len(cli.jobs) :
            (cli.jobs[j].file.kind = "image"
                 /\ (cli.jobs[j].file.width = 0 \/ cli.jobs[j].file.height = 0))
            \/ JobValidated(j)

\* a 1023 x 3 image with --resize is encoded as 1024 x 4 and written
ResizedToLimit ==
    /\ cli.pc = "exited"
    /\ cli.args.mode = "encode"
    /\ cli.args.resize
    /\ cli.jobs[1].file = ImageFile(MaxDimension - 1, 3)
    /\ cli.jobs[1].encoded
    /\ cli.jobs[1].written
    /\ cli.jobs[1].texture.width = MaxDimension
    /\ cli.jobs[1].texture.height = 4

\* C16: the command line lets only images whose dimensions are multiples of 8
\* reach the encoder, so no slot of an accepted image takes the encoder's
\* out-of-bounds skip branch.
C16_CliEnforcesMultipleOf8 ==
    (cli.pc \in {"running", "exited"} /\ cli.args.mode = "encode") =>
        \A j \in 1..Len(cli.jobs) :
            LET job == cli.jobs[j]
            IN  (job.pc = "done" /\ job.encoded) =>
                    /\ MultipleOf8(job.texture.width)
                    /\ MultipleOf8(job.texture.height)
                    /\ (job.texture.width <= 8 /\ job.texture.height <= 8) =>
                          \A i \in 1..NumSlots(job.texture.width, job.texture.height) :
                              ~Skipped(EncodeSlots(job.texture.width, job.texture.height)[i],
                                       job.texture.width, job.texture.height)

\* an uncompressed format has been encoded for dimensions of which one at least
\* is not a multiple of 8
EdgeTilesEncoded ==
    /\ pc = "encoded"
    /\ format \in UncompressedFormats
    /\ ~(MultipleOf8(width) /\ MultipleOf8(height))

\* C17 as stated: for such dimensions the encoded output is smaller than
\* width*height*bytes_per_pixel.
C17_Original ==
    EdgeTilesEncoded => 8 * Len(texture.data) < ExpectedBits(format, width, height)

\* C17, amended: for such dimensions the slots outside the image are skipped
\* and every pixel of the image is emitted exactly once, so the output has
\* exactly width*height*bytes_per_pixel bytes for the ten formats of 1 to 4
\* bytes per pixel, fewer than the whole tiles would take; L4 and A4 return
\* width*height bytes.
C17_EdgeTilesSkipped ==
    EdgeTilesEncoded =>
        LET emitted == Emitted(width, height)
        IN  /\ NumSlots(width, height) > width * height
            /\ Len(emitted) = width * height
            /\ \A i \in 1..Len(emitted) : emitted[i].x < width /\ emitted[i].y < height
            /\ Cardinality({emitted[i] : i \in 1..Len(emitted)}) = width * height
            /\ format \notin {"L4", "A4"} =>
                  /\ 8 * Len(texture.data) = ExpectedBits(format, width, height)
                  /\ 8 * Len(texture.data) < ExpectedBits(format, 8 * TilesAcross(width), 8 * TilesAcross(height))
            /\ format \in {"L4", "A4"} => Len(texture.data) = width * height

\* a 4x4 image in RGBA8888: 48 of the 64 slots are skipped, 64 bytes are emitted
C17_Witness ==
    /\ pc = "encoded" /\ format = "RGBA8888" /\ width = 4 /\ height = 4
    /\ Len(texture.data) = 64
    /\ Cardinality({i \in 1..64 : Skipped(EncodeSlots(4, 4)[i], width, height)}) = 48

\* ((R>>3)<<11) | ((G>>3)<<6) | ((B>>3)<<1) | (1 if A > 127 else 0): the four
\* fields do not overlap, so the value is their sum
Rgba5551Value(r, g, b, a) ==
    (r \div 8) * 2048 + (g \div 8) * 64 + (b \div 8) * 2 + (IF a > 127 THEN 1 ELSE 0)

\* C18: RGBA5551 encoding turns the n-th emitted pixel (R,G,B,A) into the 16-bit
\* value ((R>>3)<<11) | ((G>>3)<<6) | ((B>>3)<<1) | (A > 127), low byte first;
\* every pixel of a solid red (255,0,0,255) image becomes 0xF801, the bytes
\* 0x01 0xF8.
C18_Rgba5551Value ==
    (pc = "encoded" /\ format = "RGBA5551") =>
        LET emitted == Emitted(width, height)
        IN  /\ Len(texture.data) = 2 * Len(emitted)
            /\ \A n \in 1..Len(emitted) :
                  LET p == emitted[n].y * width + emitted[n].x
                  IN  /\ texture.data[2 * n - 1] + 256 * texture.data[2 * n]
                           = Rgba5551Value(Chan(img, p, 1), Chan(img, p, 2),
                                           Chan(img, p, 3), Chan(img, p, 4))
                      /\ texture.data[2 * n - 1] \in 0..255
                      /\ texture.data[2 * n] \in 0..255
            /\ img = SolidImage(<<255, 0, 0, 255>>, width, height) =>
                  \A n \in 1..Len(emitted) :
                      texture.data[2 * n - 1] = 1 /\ texture.data[2 * n] = 248

\* the 8x8 solid red image: 64 times the bytes 0x01 0xF8
C18_Witness ==
    /\ pc = "encoded" /\ format = "RGBA5551" /\ width = 8 /\ height = 8
    /\ img = SolidImage(<<255, 0, 0, 255>>, 8, 8)
    /\ Len(texture.data) = 128
    /\ \A n \in 1..64 : texture.data[2 * n - 1] = 1 /\ texture.data[2 * n] = 248

\* the 4-bit values of the emitted pixels of the encoded image, numbered from 0
\* in traversal order: the top 4 bits of the mean of R, G, B for L4, of alpha
\* for A4; 0 past the last emitted pixel
ExpectedNibbles ==
    LET emitted == Emitted(width, height)
    IN  [n \in 0..(2 * Len(texture.data) - 1) |->
            IF n >= Len(emitted) THEN 0
            ELSE LET p == emitted[n + 1].y * width + emitted[n + 1].x
                 IN  IF format = "L4"
                     THEN ((Chan(img, p, 1) + Chan(img, p, 2) + Chan(img, p, 3)) \div 3) \div 16
                     ELSE Chan(img, p, 4) \div 16]

\* one more nibble write on the encoded bytes changes the nibble it addresses
\* and nothing else
WriteKeepsTheRest(n, v) ==
    LET out == NibbleWrite(texture.data, n, v)
        k   == (n \div 2) + 1
    IN  /\ Len(out) = Len(texture.data)
        /\ \A j \in 1..Len(out) : j # k => out[j] = texture.data[j]
        /\ IF n % 2 = 0
           THEN out[k] % 16 = v /\ out[k] \div 16 = texture.data[k] \div 16
           ELSE out[k] \div 16 = v /\ out[k] % 16 = texture.data[k] % 16

\* C19: in L4 and A4 encoding the n-th emitted pixel goes to byte n div 2, low
\* nibble for even n and high nibble for odd n, and a write leaves the other
\* nibble of its byte unchanged: byte k of the output is
\* nibble(2k) | (nibble(2k+1) << 4), and a byte no pixel was written to is 0.
C19_NibblePacking ==
    (pc = "encoded" /\ format \in {"L4", "A4"}) =>
        LET nibble == ExpectedNibbles
        IN  /\ \A k \in 0..(Len(texture.data) - 1) :
                  texture.data[k + 1] = nibble[2 * k] + 16 * nibble[2 * k + 1]
            /\ \A n \in DOMAIN nibble : nibble[n] \in 0..15
            /\ \A n \in 0..(width * height - 1), v \in {0, 6, 15} :
                  WriteKeepsTheRest(n, v)

\* an 8x8 L4 encoding: a byte with two different non-zero nibbles, and the
\* bytes past the 32 written ones all 0
C19_Witness ==
    /\ pc = "encoded" /\ format = "L4" /\ width = 8 /\ height = 8
    /\ Len(texture.data) = 64
    /\ \E k \in 1..32 :
          /\ texture.data[k] % 16 # 0
          /\ texture.data[k] \div 16 # 0
          /\ texture.data[k] % 16 # texture.data[k] \div 16
    /\ \A k \in 33..64 : texture.data[k] = 0

\* the pixel <<R, G, B, A>> at column x, row y of the returned image, row 0 on top
DecodedPixel(x, y) ==
    LET i == (y * texture.width + x) * 4
    IN  <<decoded.image[i + 1], decoded.image[i + 2], decoded.image[i + 3], decoded.image[i + 4]>>

\* C20: in decode_texture the pixel read for the slot with tile-local (x, y) of
\* the tile at (tx, ty) ends, after the row inversion of the output index and
\* the later flip_vertical, at column tx+x and row ty+y of the returned
\* top-row-first image: the position the encoder reads that slot from.
C20_DecodeOrientation ==
    (pc = "decoded" /\ decoded.status = "ok") =>
        LET w == texture.width
            h == texture.height
            slots == EncodeSlots(w, h)
        IN  /\ Len(decoded.image) = w * h * 4
            /\ \A n \in 0..(NumSlots(w, h) - 1) :
                  LET px == SWIZZLE_LUT[(n % 64) + 1]
                      x  == ((n \div 64) % ((w + 7) \div 8)) * 8 + (px % 8)
                      y  == ((n \div 64) \div ((w + 7) \div 8)) * 8 + (px \div 8)
                  IN  /\ x < w /\ y < h
                      /\ DecodedPixel(x, y)
                           = UnpackPixel(texture.format, buffer, SrcIdx(texture.format, n))
                      /\ slots[n + 1] = [x |-> x, y |-> y]

\* an 8x16 RGBA8888 texture decoded: the first slot of the first tile is the
\* top left pixel of the image, which differs from the bottom left one
C20_Witness ==
    /\ pc = "decoded" /\ decoded.status = "ok"
    /\ texture.format = "RGBA8888" /\ texture.width = 8 /\ texture.height = 16
    /\ DecodedPixel(0, 0) = UnpackPixel("RGBA8888", buffer, 0)
    /\ DecodedPixel(0, 0) # DecodedPixel(0, 15)
    /\ DecodedPixel(0, 8) = UnpackPixel("RGBA8888", buffer, 64 * 4)

\* tile-local origins of the four sub-blocks of a tile, in the order claimed
SubBlockOrigins == <<<<0, 0>>, <<4, 0>>, <<0, 4>>, <<4, 4>>>>

\* the pixel that the i-th entry (0..15, row-major) of the k-th sub-block
\* (from 0, tiles in row-major order) stands for: image coordinates, whether
\* they are inside the image, and the colour that is due
ClaimedBlockPixel(k, i) ==
    LET tile   == k \div 4
        across == (width + 7) \div 8
        x      == (tile % across) * 8 + SubBlockOrigins[(k % 4) + 1][1] + (i % 4)
        y      == (tile \div across) * 8 + SubBlockOrigins[(k % 4) + 1][2] + (i \div 4)
        inside == x < width /\ y < height
    IN  [c |-> i % 4, r |-> i \div 4, inside |-> inside,
         rgba |-> IF inside
                  THEN <<Chan(img, y * width + x, 1), Chan(img, y * width + x, 2),
                         Chan(img, y * width + x, 3), Chan(img, y * width + x, 4)>>
                  ELSE <<0, 0, 0, 255>>]

\* C21: encode_etc1 hands compress_block, for every 8x8 tile in row-major tile
\* order, exactly four sub-blocks in the origin order (0,0), (4,0), (0,4),
\* (4,4), each of 16 pixels in row-major order, none skipped; a pixel outside
\* the image is (0,0,0,255) and, in ETC1A4, contributes the alpha nibble 0xF.
C21_SubBlockAssembly ==
    (pc = "encoded" /\ format \in {"ETC1", "ETC1A4"}) =>
        /\ Len(compress_calls) = 4 * ((width + 7) \div 8) * ((height + 7) \div 8)
        /\ \A k \in 0..(Len(compress_calls) - 1) :
              /\ Len(compress_calls[k + 1]) = 64
              /\ \A i \in 0..15 :
                    LET q == ClaimedBlockPixel(k, i)
                    IN  /\ \A c \in 1..4 : compress_calls[k + 1][4 * i + c] = q.rgba[c]
                        /\ (format = "ETC1A4" /\ ~q.inside)
                              => MaskNibble(k, 4 * q.c + q.r) = 15

\* a 12x12 ETC1A4 image: 16 sub-blocks; the second one starts at pixel (4, 0)
\* of the image, the sixth lies outside and is opaque black with mask nibbles 0xF
C21_Witness ==
    /\ pc = "encoded" /\ format = "ETC1A4" /\ width = 12 /\ height = 12
    /\ img = TestImage(0, 12, 12)
    /\ Len(compress_calls) = 16
    /\ \A c \in 1..4 : compress_calls[2][c] = Chan(img, 4, c)
    /\ \A i \in 0..15 : /\ compress_calls[6][4 * i + 4] = 255
                        /\ compress_calls[6][4 * i + 1] = 0
                        /\ MaskNibble(5, i) = 15

\* bytes per sub-block in the output: 8 of colour, and 8 of alpha before them
\* in ETC1A4
ContributionSize == IF format = "ETC1A4" THEN 16 ELSE 8

\* byte j (0..7) of the 64-bit alpha mask due for sub-block k, least
\* significant byte first: the nibble of row r, column c is nibble 4c + r
ClaimedMaskByte(k, j) ==
    LET nib(m) == ClaimedBlockPixel(k, 4 * (m % 4) + (m \div 4)).rgba[4] \div 16
    IN  nib(2 * j) + 16 * nib(2 * j + 1)

\* C22: each sub-block contributes, in this order, for ETC1A4 only the 8 bytes
\* of its alpha mask least significant byte first, then the 8 bytes the block
\* compressor returned in reversed order (output byte j is compressor byte
\* 7 - j); nothing else lies between sub-blocks.
C22_SubBlockContribution ==
    (pc = "encoded" /\ format \in {"ETC1", "ETC1A4"}) =>
        /\ Len(texture.data) = Len(compress_calls) * ContributionSize
        /\ \A k \in 0..(Len(compress_calls) - 1) :
              LET base       == k * ContributionSize
                  compressed == etc1_compress_block(compress_calls[k + 1])
                  colour     == IF format = "ETC1A4" THEN base + 8 ELSE base
              IN  /\ \A j \in 0..7 : texture.data[colour + j + 1] = compressed[(7 - j) + 1]
                  /\ format = "ETC1A4" =>
                        \A j \in 0..7 : texture.data[base + j + 1] = ClaimedMaskByte(k, j)

\* an 8x8 ETC1A4 texture: 4 contributions of 16 bytes; the first colour byte
\* of the first one is the compressor's last byte, which differs from its first
C22_Witness ==
    /\ pc = "encoded" /\ format = "ETC1A4" /\ width = 8 /\ height = 8
    /\ Len(texture.data) = 64
    /\ texture.data[9] = etc1_compress_block(compress_calls[1])[8]
    /\ texture.data[9] # etc1_compress_block(compress_calls[1])[1]
    /\ \E j \in 1..8 : texture.data[j] \notin {0, 255}

\* the bit-interleaved index of tile-local (x, y): the bits of x at positions
\* 0, 2, 4 and the bits of y at positions 1, 3, 5
Morton(x, y) ==
    (x % 2) + 4 * ((x \div 2) % 2) + 16 * ((x \div 4) % 2)
      + 2 * (y % 2) + 8 * ((y \div 2) % 2) + 32 * ((y \div 4) % 2)

\* the output pixel number claimed for the pixel at (X, Y) of a W-wide image
OutputPixelNumber(X, Y, W) ==
    ((Y \div 8) * (W \div 8) + (X \div 8)) * 64 + Morton(X % 8, Y % 8)

\* output pixel number n of the encoded data is the packed form of pixel q
HoldsPixel(n, q) ==
    IF format \in {"L4", "A4"}
    THEN (IF n % 2 = 0 THEN texture.data[(n \div 2) + 1] % 16
                       ELSE texture.data[(n \div 2) + 1] \div 16)
            = (IF format = "L4" THEN nibble_l4(q) ELSE nibble_a4(q))
    ELSE \A j \in 1..EmitBytes(format) :
            texture.data[n * EmitBytes(format) + j] = PackPixel(format, q)[j]

\* C23: for an uncompressed format and a W-by-H image with W and H multiples
\* of 8, the pixel at (X, Y) is emitted as output pixel number
\* ((Y div 8) * (W div 8) + (X div 8)) * 64 + m with m the Morton index of
\* (X mod 8, Y mod 8); every pixel of the image is emitted exactly once.
C23_MortonOrder ==
    (/\ pc = "encoded"
     /\ format \in UncompressedFormats
     /\ MultipleOf8(width) /\ MultipleOf8(height)) =>
        LET emitted == Emitted(width, height)
        IN  /\ Len(emitted) = width * height
            /\ \A X \in 0..(width - 1), Y \in 0..(height - 1) :
                  LET n == OutputPixelNumber(X, Y, width)
                  IN  /\ n \in 0..(width * height - 1)
                      /\ emitted[n + 1] = [x |-> X, y |-> Y]
                      /\ HoldsPixel(n, get_pixel(img, width, X, Y))
            /\ Cardinality({OutputPixelNumber(X, Y, width) :
                              X \in 0..(width - 1), Y \in 0..(height - 1)})
                  = width * height

\* a 16x16 RGBA8888 image: pixel (13, 10) lies in tile 3 at Morton index 25,
\* so it is output pixel 217, whose last byte is its red channel
C23_Witness ==
    /\ pc = "encoded" /\ format = "RGBA8888" /\ width = 16 /\ height = 16
    /\ img = TestImage(0, 16, 16)
    /\ OutputPixelNumber(13, 10, width) = 217
    /\ texture.data[217 * 4 + 4] = Chan(img, 10 * 16 + 13, 1)
    /\ \A p \in 0..255 : p # 10 * 16 + 13 => Chan(img, p, 1) # texture.data[217 * 4 + 4]

\* the image has been decoded from a buffer of exactly the packed size, for
\* dimensions that are multiples of 8, and encoded and decoded once more
SecondRoundTrip ==
    /\ pc = "reencoded"
    /\ texture.format \in DecodableFormats
    /\ MultipleOf8(texture.width) /\ MultipleOf8(texture.height)
    /\ 8 * Len(buffer) = ExpectedBits(texture.format, texture.width, texture.height)

\* C24: for each format that has a decoder, dimensions that are multiples of 8
\* and a correctly sized packed buffer b, encode(decode(b)) = b byte for byte;
\* so a second round trip returns the image of the first.
C24_EncodeInvertsDecode ==
    SecondRoundTrip =>
        /\ second.texture.data = buffer
        /\ second.texture.format = texture.format
        /\ second.texture.width = texture.width
        /\ second.texture.height = texture.height
        /\ second.decoded.status = "ok"
        /\ second.decoded.image = decoded.image

\* a 16x16 RGB565 buffer in which green takes odd 6-bit values, decoded to an
\* image that differs from the original and encoded back to the same bytes
C24_Witness ==
    /\ SecondRoundTrip
    /\ texture.format = "RGB565" /\ texture.width = 16 /\ texture.height = 16
    /\ decoded.image # img
    /\ second.texture.data = buffer
    /\ \E n \in 0..255 : ((buffer[2 * n + 1] + 256 * buffer[2 * n + 2]) \div 32) % 2 = 1

\* decode_texture has been called for a width or height that is not a
\* multiple of 8
DecodedOffTiles ==
    /\ pc = "decoded"
    /\ ~(MultipleOf8(texture.width) /\ MultipleOf8(texture.height))

\* C25: decode_texture returns no image when the declared width or height is
\* not a multiple of 8: every such call fails, on the buffer encode produced
\* for those dimensions and on a buffer sized for full 8x8 tiles alike.
C25_OffTileDecodeFails ==
    DecodedOffTiles =>
        /\ decoded.status \in {"panic", "err"}
        /\ decoded.image = <<>>
        /\ \A oc \in BOOLEAN : ~ENABLED Reencode(oc)

\* a 4x4 RGBA8888 texture decoded from a buffer of one full tile (256 bytes)
\* without overflow checks: the decoder has read source bytes before failing
C25_Witness ==
    /\ DecodedOffTiles
    /\ texture.format = "RGBA8888" /\ texture.width = 4 /\ texture.height = 4
    /\ Len(texture.data) = 64
    /\ Len(buffer) = 256
    /\ decoded.status = "panic"
    /\ decoded.reason # "overflow"
    /\ decoded.max_read >= 3

\* the same texture decoded from the 64 bytes encode produced
C25_WitnessEncoded ==
    /\ DecodedOffTiles
    /\ texture.format = "RGBA8888" /\ texture.width = 4 /\ texture.height = 4
    /\ buffer = texture.data
    /\ decoded.status = "panic"

====
